---- MODULE Spec2Model ----
(***************************************************************************)
(* Model of the force12 / microscaling control loop.                       *)
(*                                                                         *)
(* The repository holds two control loops of package main:                 *)
(*   - handleDemandChange / update (one tick over the task map ts, gated   *)
(*     by the readiness flag scaling_ready);                               *)
(*   - main's for-loop over the Demand record (Demand.update,              *)
(*     Demand.handle, sendStateToAPI every const_sendstate_sleeps ticks).  *)
(* The variable prog says which of the two a behaviour runs.  The demand   *)
(* source (demand.Input) and the scheduler (scheduler.Scheduler) are       *)
(* interfaces whose implementations are outside the sources: what they     *)
(* return is an input of each action.  main is modelled with the scheduler *)
(* it constructs wired into the Demand record it calls it through.         *)
(***************************************************************************)
EXTENDS Integers, Sequences, FiniteSets

VARIABLES
    prog,            \* "handler" | "main": which control loop runs
    ts,              \* handleDemandChange: map name -> demand.Task
    scaling_ready,   \* handleDemandChange: *scaling_ready
    tick,            \* what the latest handleDemandChange call did
    lastAction,      \* "init" | "tick" | "complete" | "startup" | "loop"
    gatedOut,        \* the tick before the latest, if the gate shut it out
    currentdemand,   \* main: the Demand record
    sleepcount,      \* main: sleeps since the last state push
    sendstate,       \* main: F12_SEND_STATE_TO_API = "true"
    pc,              \* main: "start" | "loop" | "exited" | "panicked"
    iter,            \* what the latest iteration of main's loop did
    ticks            \* main: iterations of the loop so far, modulo the period

hvars == <<ts, scaling_ready, tick, gatedOut>>
mvars == <<currentdemand, sleepcount, sendstate, pc, iter, ticks>>
vars == <<prog, ts, scaling_ready, tick, lastAction, gatedOut,
          currentdemand, sleepcount, sendstate, pc, iter, ticks>>

----------------------------------------------------------------------------
(* Bounds *)

\* the demand source of handleDemandChange returns 0..MaxDemand
MaxDemand == 1
\* the demand source of main returns
\* const_maxcontainers - Below .. const_maxcontainers + Above
Below == 4
Above == 1

----------------------------------------------------------------------------
(* handleDemandChange and update *)

p1TaskName == "priority1-demand"
p2TaskName == "priority2-demand"
TaskNames == {p1TaskName, p2TaskName}

\* demand.Task, zero-valued
ZeroTask == [Demand |-> 0, Requested |-> 0, Running |-> 0]

\* what input.GetDemand(name) returns: (int, error)
GetDemandResults ==
    [v : 0..MaxDemand, err : {FALSE}] \cup {[v |-> 0, err |-> TRUE]}

\* what s.StopStartNTasks returns: (bool, error)
StopStartResults == [ready : BOOLEAN, err : BOOLEAN]

\* the orders in which `for name, task := range ts` can visit the two keys
RangeOrders == {<<p1TaskName, p2TaskName>>, <<p2TaskName, p1TaskName>>}

nil == [op |-> "nil", name |-> ""]
GetDemandError(name) == [op |-> "GetDemand", name |-> name]
StopStartError(name) == [op |-> "StopStartNTasks", name |-> name]

\* the task record as the scheduler leaves it behind the pointer &task: the
\* demand is now requested (Running is what CountAllTasks reports, which a
\* tick never calls)
StopStartNTasks(task) ==
    [task EXCEPT !.Requested = task.Demand]

\* a change flag that is raised on every cycle
demandchangeAlways(newP1, oldP1, newP2, oldP2) == TRUE

\* (p1.Demand != oldP1Demand) || (p2.Demand != oldP2Demand)
demandchange(newP1, oldP1, newP2, oldP2) ==
    (newP1 # oldP1) \/ (newP2 # oldP2)

\* an update that stores each demand as soon as it is read
updateStoresEarly(tasks, g1, g2) ==
    IF g1.err
    THEN [changed |-> FALSE, err |-> GetDemandError(p1TaskName), ts |-> tasks]
    ELSE IF g2.err
    THEN [changed |-> FALSE, err |-> GetDemandError(p2TaskName),
          ts |-> [tasks EXCEPT ![p1TaskName].Demand = g1.v]]
    ELSE [changed |-> demandchange(g1.v, tasks[p1TaskName].Demand,
                                   g2.v, tasks[p2TaskName].Demand),
          err |-> nil,
          ts |-> [tasks EXCEPT ![p1TaskName].Demand = g1.v,
                               ![p2TaskName].Demand = g2.v]]

\* an update that writes each sampled demand into the other class's record
updateCrossesRecords(tasks, g1, g2) ==
    IF g1.err
    THEN [changed |-> FALSE, err |-> GetDemandError(p1TaskName), ts |-> tasks]
    ELSE IF g2.err
    THEN [changed |-> FALSE, err |-> GetDemandError(p2TaskName), ts |-> tasks]
    ELSE [changed |-> demandchange(g1.v, tasks[p1TaskName].Demand,
                                   g2.v, tasks[p2TaskName].Demand),
          err |-> nil,
          ts |-> [tasks EXCEPT ![p1TaskName].Demand = g2.v,
                               ![p2TaskName].Demand = g1.v]]

\* update(input, ts): g1, g2 are what GetDemand returns for p1 and p2
update(tasks, g1, g2) ==
    LET p1 == tasks[p1TaskName]
        p2 == tasks[p2TaskName]
        oldP1Demand == p1.Demand
        oldP2Demand == p2.Demand
    IN  IF g1.err
        THEN [changed |-> FALSE, err |-> GetDemandError(p1TaskName), ts |-> tasks]
        ELSE IF g2.err
        THEN [changed |-> FALSE, err |-> GetDemandError(p2TaskName), ts |-> tasks]
        ELSE [changed |-> demandchange(g1.v, oldP1Demand, g2.v, oldP2Demand),
              err |-> nil,
              ts |-> [tasks EXCEPT ![p1TaskName].Demand = g1.v,
                                   ![p2TaskName].Demand = g2.v]]

\* a gate with the check taken out
gateNeverClosed(ready, i) == FALSE

\* a gate checked once, before the loop, instead of before every call
gateCheckedOnce(ready, i) == i = 1 /\ ~ready

\* if !*scaling_ready { return nil }, at the top of iteration i
gateClosed(ready, i) == ~ready

\* a flag that is assigned only when the call returned no error
flagKeptOnError(ready, r) == IF r.err THEN ready ELSE r.ready

\* *scaling_ready, err = s.StopStartNTasks(...): assigned before err is tested
flagAfterCall(ready, r) == r.ready

\* a loop that goes on to the next class after a failed call
breakNever(r) == FALSE

\* after a failed StopStartNTasks: break
breakOnError(r) == r.err

\* the loop `for name, task := range ts` from the position order is at;
\* resp[i] is what StopStartNTasks returns in iteration i;
\* st = [ts, ready, changed, calls, abortedAt, err], i the iteration number
RECURSIVE rangeLoop(_, _, _, _)
rangeLoop(st, order, resp, i) ==
    IF order = <<>> THEN st
    ELSE LET name == Head(order)
             task == st.ts[name]
             r == resp[i]
         IN  IF gateClosed(st.ready, i)
             THEN [st EXCEPT !.abortedAt = i, !.err = nil]
             ELSE LET called ==
                          [st EXCEPT !.ready = flagAfterCall(st.ready, r),
                                     !.calls = Append(@,
                                         [name |-> name, ready |-> st.ready,
                                          demand |-> task.Demand,
                                          requested |-> task.Requested,
                                          readyAfter |-> r.ready,
                                          err |-> r.err])]
                  IN  IF breakOnError(r)
                      THEN [called EXCEPT !.err = StopStartError(name)]
                      ELSE rangeLoop(
                               [called EXCEPT !.ts[name] = StopStartNTasks(task)],
                               Tail(order), resp, i + 1)

\* handleDemandChange(input, s, scaling_ready, ready, ts)
handleDemandChange(tasks, ready, g1, g2, order, resp) ==
    LET u == update(tasks, g1, g2)
        st0 == [ts |-> u.ts, ready |-> ready, changed |-> u.changed,
                calls |-> <<>>, abortedAt |-> 0, err |-> u.err]
    IN  IF u.err # nil
        THEN st0
        ELSE IF u.changed
        THEN rangeLoop(st0, order, resp, 1)
        ELSE st0

\* the classes a cycle leaves stale: after a changed cycle, those whose call
\* failed or was never reached; after any other cycle, those stale before
leftStale(h, before) ==
    IF h.changed
    THEN {n \in TaskNames :
              \A i \in 1..Len(h.calls) : h.calls[i].name = n => h.calls[i].err}
    ELSE before

NoTick ==
    [pre |-> [ts |-> [n \in TaskNames |-> ZeroTask], ready |-> TRUE,
              stale |-> {}],
     stale |-> {},
     g1 |-> [v |-> 0, err |-> FALSE], g2 |-> [v |-> 0, err |-> FALSE],
     changed |-> FALSE, calls |-> <<>>, abortedAt |-> 0, ret |-> nil]

NotGatedOut ==
    [was |-> FALSE, g1 |-> [v |-> 0, err |-> FALSE], g2 |-> [v |-> 0, err |-> FALSE]]

----------------------------------------------------------------------------
(* main.go: Demand, sendStateToAPI and main's loop *)

const_sendstate_sleeps == 5
const_p1demandstart == 5
const_p2demandstart == 4
const_maxcontainers == 9

RawDemands == (const_maxcontainers - Below)..(const_maxcontainers + Above)

\* what input.GetDemand("priority1-demand") returns in main
MainDemandResults ==
    [v : RawDemands, err : {FALSE}] \cup {[v |-> 0, err |-> TRUE]}

\* the response statuses of the API
StatusCodes == {200, 204, 205, 500}

\* what sendStateToAPI meets: CountAllTasks fails; or http.DefaultClient.Do
\* fails, with a nil response (a transport error) or with a response beside
\* the error (a refused redirect); or a response comes back
ApiResults ==
    {[count_err |-> TRUE, do_err |-> FALSE, nil_resp |-> FALSE, status |-> 0],
     [count_err |-> FALSE, do_err |-> TRUE, nil_resp |-> TRUE, status |-> 0],
     [count_err |-> FALSE, do_err |-> TRUE, nil_resp |-> FALSE, status |-> 302]}
        \cup [count_err : {FALSE}, do_err : {FALSE}, nil_resp : {FALSE},
              status : StatusCodes]

\* Demand.set: -1 means "don't update"
Demand_set(d, p1, p2) ==
    [p1old |-> d.p1demand,
     p2old |-> d.p2demand,
     d |-> [d EXCEPT !.p2demand = IF p2 # -1 THEN p2 ELSE @,
                     !.p1demand = IF p1 # -1 THEN p1 ELSE @]]

\* newP2Demand := const_maxcontainers - newP1Demand
newP2Demand(newP1Demand) == const_maxcontainers - newP1Demand

\* Demand.update: g is what GetDemand returns
Demand_update(d, g) ==
    IF g.err THEN [d |-> d, changed |-> FALSE]
    ELSE LET newP1 == g.v
             newP2 == newP2Demand(newP1)
             old == Demand_set(d, newP1, newP2)
         IN  [d |-> old.d,
              changed |-> (newP1 # old.p1old) \/ (newP2 # old.p2old)]

\* a priority-2 call that passes the priority-1 count
p2CallWithP1Count(d, e2) ==
    [name |-> p2TaskName, demand |-> d.p2demand,
     requested |-> d.p1requested, err |-> e2]

\* the arguments of the priority-2 call of Demand.handle
p2Call(d, e2) ==
    [name |-> p2TaskName, demand |-> d.p2demand,
     requested |-> d.p2requested, err |-> e2]

\* Demand.handle: e1, e2 say whether the two StopStartNTasks calls fail;
\* the error of the second call is dropped
Demand_handle(d, e1, e2) ==
    [calls |-> <<[name |-> p1TaskName, demand |-> d.p1demand,
                  requested |-> d.p1requested, err |-> e1],
                 p2Call(d, e2)>>,
     err |-> IF e1 THEN StopStartError(p1TaskName) ELSE nil]

\* what sched.CountAllTasks returns in the loop: the scheduler runs what the
\* Demand record asked for before this sample, or nothing yet, or the call
\* fails and zeros come beside the error
AtLeastZero(n) == IF n < 0 THEN 0 ELSE n
CountResults(d) ==
    {[c1 |-> AtLeastZero(d.p1demand), c2 |-> AtLeastZero(d.p2demand), err |-> FALSE],
     [c1 |-> 0, c2 |-> 0, err |-> FALSE],
     [c1 |-> 0, c2 |-> 0, err |-> TRUE]}

\* resp.StatusCode > 204
errorStatus(status) == status > 204

\* sendStateToAPI: "nil", an error, or "panic": defer resp.Body.Close()
\* dereferences the response before err is looked at
sendStateToAPI(api) ==
    IF api.count_err THEN "Failed to get state"
    ELSE IF api.nil_resp THEN "panic"
    ELSE IF api.do_err THEN "API state err"
    ELSE IF errorStatus(api.status) THEN "error response from API"
    ELSE "nil"

\* a push one sleep short of the period
sendsEarly(sc) == sc + 2 = const_sendstate_sleeps

\* sleepcount++; if sleepcount == const_sendstate_sleeps
sendsNow(sc) == sc + 1 = const_sendstate_sleeps

\* the inputs an iteration does not consult: the scheduler when demand did
\* not change, the API when the iteration does not push
NoApi == [count_err |-> FALSE, do_err |-> FALSE, nil_resp |-> FALSE, status |-> 200]
NoCount == [c1 |-> 0, c2 |-> 0, err |-> FALSE]

\* one iteration of main's for loop
loopBody(d, sc, send, g, cnt, e1, e2, api) ==
    LET u == Demand_update(d, g)
        counted == [u.d EXCEPT !.p1requested = cnt.c1, !.p2requested = cnt.c2]
        h == Demand_handle(counted, e1, e2)
        d1 == IF u.changed THEN counted ELSE u.d
        pushes == sendsNow(sc) /\ send
        pushed == IF pushes THEN sendStateToAPI(api) ELSE "none"
    IN  [d |-> d1,
         sleepcount |-> IF sendsNow(sc) THEN 0 ELSE sc + 1,
         pc |-> IF pushed = "panic" THEN "panicked" ELSE "loop",
         iter |-> [pre |-> [p1demand |-> d.p1demand, p2demand |-> d.p2demand],
                   g |-> g, changed |-> u.changed,
                   counted |-> IF u.changed THEN cnt ELSE NoCount,
                   calls |-> IF u.changed THEN h.calls ELSE <<>>,
                   err |-> IF u.changed THEN h.err ELSE nil,
                   api |-> IF pushes THEN api ELSE NoApi,
                   pushed |-> pushed]]

NoIter ==
    [pre |-> [p1demand |-> const_p1demandstart, p2demand |-> const_p2demandstart],
     g |-> [v |-> 0, err |-> TRUE], changed |-> FALSE, counted |-> NoCount,
     calls |-> <<>>, err |-> nil, api |-> NoApi, pushed |-> "none"]

ZeroDemand == [p1demand |-> 0, p2demand |-> 0, p1requested |-> 0, p2requested |-> 0]

----------------------------------------------------------------------------
(* The state machine *)

Init ==
    /\ prog \in {"handler", "main"}
    /\ ts = [n \in TaskNames |-> ZeroTask]
    /\ scaling_ready = TRUE
    /\ tick = NoTick
    /\ gatedOut = NotGatedOut
    /\ lastAction = "init"
    /\ currentdemand =
           Demand_set(ZeroDemand, const_p1demandstart, const_p2demandstart).d
    /\ sleepcount = 0
    /\ sendstate \in IF prog = "main" THEN BOOLEAN ELSE {TRUE}
    /\ pc = "start"
    /\ iter = NoIter
    /\ ticks = 0

\* the inputs a tick consults: GetDemand(p2) only after GetDemand(p1)
\* succeeded; the range order and the scheduler only in a cycle that calls it
Samples ==
    {<<g1, g2>> : g1 \in {g \in GetDemandResults : ~g.err}, g2 \in GetDemandResults}
        \cup {<<[v |-> 0, err |-> TRUE], [v |-> 0, err |-> FALSE]>>}
FirstOrder == <<p1TaskName, p2TaskName>>
Accepted == [ready |-> TRUE, err |-> FALSE]
\* what the scheduler answers to the first and to the second call of a cycle;
\* there is a second call only after the first returned (true, nil)
Responses ==
    {<<r1, r2>> : r1 \in {Accepted}, r2 \in StopStartResults}
        \cup {<<r1, Accepted>> : r1 \in StopStartResults \ {Accepted}}
Reconciles(tasks, s) == update(tasks, s[1], s[2]).changed

\* one call of handleDemandChange
Tick ==
    /\ prog = "handler"
    /\ \E s \in Samples :
       \E order \in IF Reconciles(ts, s)
                     THEN RangeOrders ELSE {FirstOrder},
          resp \in IF Reconciles(ts, s)
                    THEN Responses ELSE {<<Accepted, Accepted>>} :
          \E h \in {handleDemandChange(ts, scaling_ready, s[1], s[2], order, resp)} :
              /\ ts' = h.ts
              /\ scaling_ready' = h.ready
              /\ tick' = [pre |-> [ts |-> ts, ready |-> scaling_ready,
                                   stale |-> tick.stale],
                          stale |-> leftStale(h, tick.stale),
                          g1 |-> s[1], g2 |-> s[2],
                          changed |-> h.changed, calls |-> h.calls,
                          abortedAt |-> h.abortedAt, ret |-> h.err]
              /\ gatedOut' =
                     IF tick.changed /\ ~tick.pre.ready /\ tick.calls = <<>>
                     THEN [was |-> TRUE, g1 |-> tick.g1, g2 |-> tick.g2]
                     ELSE NotGatedOut
    /\ lastAction' = "tick"
    /\ UNCHANGED <<prog, mvars>>

\* the scheduler's completion signal: the caller of handleDemandChange sets
\* the flag back to true
ScalingComplete ==
    /\ prog = "handler"
    /\ ~scaling_ready
    /\ scaling_ready' = TRUE
    /\ lastAction' = "complete"
    /\ UNCHANGED <<prog, ts, tick, gatedOut, mvars>>

\* main before its loop: InitScheduler for both classes, then update()
Startup ==
    /\ prog = "main"
    /\ pc = "start"
    /\ \E init_err \in BOOLEAN, g \in MainDemandResults :
          IF init_err
          THEN pc' = "exited" /\ UNCHANGED currentdemand
          ELSE /\ pc' = "loop"
               /\ currentdemand' = Demand_update(currentdemand, g).d
    /\ lastAction' = "startup"
    /\ UNCHANGED <<prog, hvars, sleepcount, sendstate, iter, ticks>>

\* one iteration of main's for loop
MainLoop ==
    /\ prog = "main"
    /\ pc = "loop"
    /\ \E g \in MainDemandResults :
       \E changes \in {Demand_update(currentdemand, g).changed} :
       \E cnt \in IF changes THEN CountResults(currentdemand) ELSE {NoCount},
          e1 \in IF changes THEN BOOLEAN ELSE {FALSE},
          e2 \in IF changes THEN BOOLEAN ELSE {FALSE},
          api \in IF sendsNow(sleepcount) /\ sendstate THEN ApiResults ELSE {NoApi} :
          \E h \in {loopBody(currentdemand, sleepcount, sendstate,
                              g, cnt, e1, e2, api)} :
              /\ currentdemand' = h.d
              /\ sleepcount' = h.sleepcount
              /\ pc' = h.pc
              /\ iter' = h.iter
    /\ ticks' = (ticks + 1) % const_sendstate_sleeps
    /\ lastAction' = "loop"
    /\ UNCHANGED <<prog, hvars, sendstate>>

Next == Tick \/ ScalingComplete \/ Startup \/ MainLoop

Spec == Init /\ [][Next]_vars

----------------------------------------------------------------------------
(* The claims *)

\* the state right after a call of handleDemandChange / an iteration of main
AfterTick == prog = "handler" /\ lastAction = "tick"
AfterLoop == prog = "main" /\ lastAction = "loop"

CallsOf(calls, n) == {i \in 1..Len(calls) : calls[i].name = n}

\* the latest tick sampled both classes and read the stored values again
SampledSame ==
    /\ ~tick.g1.err /\ ~tick.g2.err
    /\ tick.g1.v = tick.pre.ts[p1TaskName].Demand
    /\ tick.g2.v = tick.pre.ts[p2TaskName].Demand

\* the task map a tick leaves when it reconciles none of the classes in S
Unreconciled(S) ==
    \A n \in S :
        /\ ts[n].Requested = tick.pre.ts[n].Requested
        /\ ts[n].Running = tick.pre.ts[n].Running

\* C1: single-flight: every StopStartNTasks call a tick makes is made in a
\* state where the readiness flag is true.
C1_SingleFlight ==
    \A i \in 1..Len(tick.calls) : tick.calls[i].ready = TRUE

\* a tick that started with the flag true, called the scheduler for one class,
\* got the flag back true and called it for the other
C1_Witness ==
    /\ AfterTick
    /\ Len(tick.calls) = 2
    /\ tick.calls[1].readyAfter

\* C2 as stated: a tick in which any gate check observes the flag false makes
\* zero StopStartNTasks calls and reconciles no class.
C2_Original ==
    (AfterTick /\ tick.abortedAt > 0) =>
        /\ tick.calls = <<>>
        /\ Unreconciled(TaskNames)

\* C2 amended: a tick that starts with the flag false makes zero calls and
\* reconciles no class; a tick whose gate check observes false at a later
\* class, because the call for the earlier class returned false, keeps that
\* one call, makes no further call, and leaves the later class unreconciled;
\* and a call that returns false without error always shuts out the rest.
C2_GateAborts ==
    /\ (AfterTick /\ tick.changed /\ ~tick.pre.ready) =>
           /\ tick.abortedAt = 1
           /\ tick.calls = <<>>
           /\ Unreconciled(TaskNames)
    /\ (AfterTick /\ tick.abortedAt > 0) =>
           /\ Len(tick.calls) = tick.abortedAt - 1
           /\ \A i \in 1..Len(tick.calls) :
                  tick.calls[i].ready /\ ~tick.calls[i].err
           /\ tick.abortedAt > 1 => ~tick.calls[tick.abortedAt - 1].readyAfter
           /\ Unreconciled({n \in TaskNames : CallsOf(tick.calls, n) = {}})
           /\ tick.ret = nil
    /\ \A i \in 1..Len(tick.calls) :
           (~tick.calls[i].readyAfter /\ ~tick.calls[i].err /\ i < Cardinality(TaskNames))
               => (tick.abortedAt = i + 1 /\ Len(tick.calls) = i)

\* the flag went false at the first call of the tick, and the gate check of
\* the second class saw it
C2_Witness ==
    /\ AfterTick
    /\ tick.abortedAt = 2
    /\ Len(tick.calls) = 1

\* C3: if the StopStartNTasks call for priority 1 returns an error, no call
\* for priority 2 is made in that cycle, before or after it.
C3_PartialFailureOrdering ==
    /\ (\E i \in CallsOf(tick.calls, p1TaskName) : tick.calls[i].err)
           => CallsOf(tick.calls, p2TaskName) = {}
    /\ (\E i \in CallsOf(iter.calls, p1TaskName) : iter.calls[i].err)
           => CallsOf(iter.calls, p2TaskName) = {}

\* C4: a change sampled on a tick the gate shut out (zero calls) is
\* reconciled by the next tick, when the flag is true again and the source
\* reports the same values.
C4_ScenarioC ==
    (/\ AfterTick
     /\ gatedOut.was
     /\ tick.pre.ready
     /\ tick.g1 = gatedOut.g1 /\ tick.g2 = gatedOut.g2)
        => tick.calls # <<>>

\* C5: after every successful demand update the stored demands add up to the
\* capacity and each lies in 0..capacity.
C5_AllocationInvariant ==
    (AfterLoop /\ ~iter.g.err) =>
        /\ currentdemand.p1demand + currentdemand.p2demand = const_maxcontainers
        /\ currentdemand.p1demand \in 0..const_maxcontainers
        /\ currentdemand.p2demand \in 0..const_maxcontainers

\* C6: a tick that samples the stored demand again reports no change and
\* makes zero StopStartNTasks calls (handleDemandChange and main's loop).
C6_Idempotence ==
    /\ SampledSame => (~tick.changed /\ tick.calls = <<>>)
    /\ (~iter.g.err /\ iter.g.v = iter.pre.p1demand)
           => (~iter.changed /\ iter.calls = <<>>)

\* C7: a tick whose GetDemand fails, for the first class or for the second
\* after the first succeeded, returns that error, calls the scheduler zero
\* times and leaves the task map and the readiness flag as they were.
C7_DemandQueryFailure ==
    (AfterTick /\ (tick.g1.err \/ tick.g2.err)) =>
        /\ tick.ret = GetDemandError(IF tick.g1.err THEN p1TaskName ELSE p2TaskName)
        /\ tick.calls = <<>>
        /\ ~tick.changed
        /\ ts = tick.pre.ts
        /\ scaling_ready = tick.pre.ready

\* GetDemand gave a new value for the first class and failed for the second
C7_Witness ==
    /\ AfterTick
    /\ ~tick.g1.err /\ tick.g2.err
    /\ tick.g1.v # tick.pre.ts[p1TaskName].Demand

\* C8: whenever both classes are reconciled in a cycle, the call for
\* priority 1 is issued before the call for priority 2.
C8_DeterministicOrder ==
    /\ Len(tick.calls) = 2 =>
           (tick.calls[1].name = p1TaskName /\ tick.calls[2].name = p2TaskName)
    /\ Len(iter.calls) = 2 =>
           (iter.calls[1].name = p1TaskName /\ iter.calls[2].name = p2TaskName)

\* the push of the latest iteration failed: CountAllTasks failed, the
\* transport failed, or the status was above 204
PushFailed ==
    /\ AfterLoop
    /\ iter.pushed # "none"
    /\ iter.api.count_err \/ iter.api.do_err \/ iter.api.status > 204

\* C9: a failed telemetry push does not end the control loop.
C9_TelemetryNonFatal ==
    PushFailed => pc = "loop"

\* the latest iteration found 5 and 4 stored and counted, and sampled 7
ScenarioA ==
    /\ AfterLoop
    /\ iter.pre = [p1demand |-> 5, p2demand |-> 4]
    /\ iter.g = [v |-> 7, err |-> FALSE]
    /\ iter.counted = [c1 |-> 5, c2 |-> 4, err |-> FALSE]

\* C10: scenario A: stored 5 and 4, counted 5 and 4, the source reports 7:
\* the stored demand becomes 7 and 2 and the iteration makes one call per
\* class, priority 1 from 5 to 7 (+2) and priority 2 from 4 to 2 (-2).
C10_ScenarioA ==
    ScenarioA =>
        /\ currentdemand.p1demand = 7 /\ currentdemand.p2demand = 2
        /\ Len(iter.calls) = 2
        /\ iter.calls[1].name = p1TaskName
        /\ iter.calls[1].demand = 7 /\ iter.calls[1].requested = 5
        /\ iter.calls[1].demand - iter.calls[1].requested = 2
        /\ iter.calls[2].name = p2TaskName
        /\ iter.calls[2].demand = 2 /\ iter.calls[2].requested = 4
        /\ iter.calls[2].demand - iter.calls[2].requested = -2

C10_Witness == ScenarioA

\* what the latest tick sampled for class n
Sampled(n) == IF n = p1TaskName THEN tick.g1.v ELSE tick.g2.v

Abs(x) == IF x < 0 THEN -x ELSE x

\* C11: after every successful sample the demand stored for each class is
\* the sampled value, so it lies in 0..maximum and it moved from the value
\* stored before by no more than the sample did, whatever the delta.
C11_WalkPreserved ==
    (AfterTick /\ ~tick.g1.err /\ ~tick.g2.err) =>
        \A n \in TaskNames :
            /\ ts[n].Demand = Sampled(n)
            /\ ts[n].Demand \in 0..MaxDemand
            /\ \A delta \in 0..MaxDemand :
                   Abs(Sampled(n) - tick.pre.ts[n].Demand) <= delta
                       => Abs(ts[n].Demand - tick.pre.ts[n].Demand) <= delta

\* a successful sample that moves both classes, to different values
C11_Witness ==
    /\ AfterTick
    /\ ~tick.g1.err /\ ~tick.g2.err
    /\ tick.g1.v # tick.g2.v
    /\ \A n \in TaskNames : Sampled(n) # tick.pre.ts[n].Demand

\* the error of the first failing StopStartNTasks call among calls, or nil
FirstCallError(calls) ==
    LET failed == {i \in 1..Len(calls) : calls[i].err}
    IN  IF failed = {} THEN nil
        ELSE StopStartError(calls[CHOOSE i \in failed : \A j \in failed : i <= j].name)

\* C12: a tick returns the first error it met, the GetDemand error or the
\* error of the first failing StopStartNTasks call of either class, and nil
\* only if no call failed; a gate abort is not an error.
C12_FirstError ==
    /\ tick.ret = IF tick.g1.err THEN GetDemandError(p1TaskName)
                  ELSE IF tick.g2.err THEN GetDemandError(p2TaskName)
                  ELSE FirstCallError(tick.calls)
    /\ tick.abortedAt > 0 => tick.ret = nil
    /\ iter.err = FirstCallError(iter.calls)

\* the record StopStartNTasks hands back for class n in the latest tick
Committed(n) ==
    StopStartNTasks([tick.pre.ts[n] EXCEPT !.Demand = Sampled(n)])

\* C13: partial application: when StopStartNTasks fails for a class in a
\* changed cycle, no further call is made in the cycle, the failing class and
\* the classes not reached keep the requested/running counts they had, the
\* classes already reconciled keep their committed record; a successful call
\* replaces the class's record by the one the gateway updated.
C13_PartialApplication ==
    (AfterTick /\ tick.changed) =>
        /\ \A i \in 1..Len(tick.calls) : tick.calls[i].err => i = Len(tick.calls)
        /\ \A n \in TaskNames :
               IF \E i \in CallsOf(tick.calls, n) : ~tick.calls[i].err
               THEN ts[n] = Committed(n)
               ELSE /\ Unreconciled({n})
                    /\ ts[n].Demand = Sampled(n)

C13_Witness ==
    /\ AfterTick /\ tick.changed
    /\ Len(tick.calls) = 2 /\ ~tick.calls[1].err /\ tick.calls[2].err
    /\ ts[tick.calls[1].name].Requested # tick.pre.ts[tick.calls[1].name].Requested
    /\ ts[tick.calls[2].name].Requested # ts[tick.calls[2].name].Demand

\* the latest tick sampled both classes
SampledBoth == ~tick.g1.err /\ ~tick.g2.err

\* the latest tick's loop got as far as class n with the gate open
Reached(n) ==
    /\ tick.pre.ready
    /\ \A i \in 1..Len(tick.calls) :
           tick.calls[i].name # n => (~tick.calls[i].err /\ tick.calls[i].readyAfter)

\* C14 as stated: after a cycle that left a class stale (its call failed or
\* was never reached), no StopStartNTasks call is issued for that class on a
\* later tick that samples the class's own stored demand again.
C14_Original ==
    AfterTick =>
        \A n \in tick.pre.stale :
            (SampledBoth /\ Sampled(n) = tick.pre.ts[n].Demand)
                => CallsOf(tick.calls, n) = {}

\* C14 amended: a class left stale gets no StopStartNTasks call on a later
\* tick on which every class's sample equals its stored demand or a sample
\* fails; it is called again on the first later tick on which the demand of
\* any class, its own or another's, changes and the loop reaches it.
C14_NoRetryUntilAnyChange ==
    AfterTick =>
        \A n \in tick.pre.stale :
            /\ (~SampledBoth \/ SampledSame) => CallsOf(tick.calls, n) = {}
            /\ (SampledBoth /\ ~SampledSame /\ Reached(n))
                   => CallsOf(tick.calls, n) # {}

\* a stale class whose own sample equals its stored demand is called again,
\* and reconciled, because the other class's demand changed
C14_Witness ==
    /\ AfterTick /\ SampledBoth
    /\ \E n \in tick.pre.stale :
           /\ Sampled(n) = tick.pre.ts[n].Demand
           /\ tick.pre.ts[n].Requested # tick.pre.ts[n].Demand
           /\ \E i \in CallsOf(tick.calls, n) : ~tick.calls[i].err
           /\ ts[n].Requested = ts[n].Demand

\* C15: change detection: a successful update returns changed = true if and
\* only if the newly sampled demand of at least one class differs from that
\* class's previously stored demand, and after it every class's stored demand
\* equals its newly sampled value.
C15_ChangeDetection ==
    /\ (AfterTick /\ SampledBoth) =>
           /\ tick.changed <=>
                  \E n \in TaskNames : Sampled(n) # tick.pre.ts[n].Demand
           /\ \A n \in TaskNames : ts[n].Demand = Sampled(n)
    /\ (AfterLoop /\ ~iter.g.err) =>
           /\ iter.changed <=>
                  \/ iter.g.v # iter.pre.p1demand
                  \/ newP2Demand(iter.g.v) # iter.pre.p2demand
           /\ currentdemand.p1demand = iter.g.v
           /\ currentdemand.p2demand = newP2Demand(iter.g.v)

\* C16: a task-count failure does not block reconciliation: on a changed tick
\* where CountAllTasks returns an error, the loop still issues the
\* StopStartNTasks calls of that tick, with the requested counts returned
\* beside the error, and goes on to the next tick.
C16_CountFailureNonBlocking ==
    (AfterLoop /\ iter.changed /\ iter.counted.err) =>
        /\ Len(iter.calls) = 2
        /\ iter.calls[1].name = p1TaskName
        /\ iter.calls[1].requested = iter.counted.c1
        /\ iter.calls[2].name = p2TaskName
        /\ iter.calls[2].requested = iter.counted.c2
        /\ pc = "loop"

\* C17: telemetry cadence: with telemetry enabled sendStateToAPI is invoked
\* once on every 5th iteration of the loop (5, 10, 15, ...) and on no other,
\* whether or not demand changed or reconciliation failed on it; with
\* telemetry disabled it is never invoked.
C17_TelemetryCadence ==
    AfterLoop => (iter.pushed # "none" <=> (sendstate /\ ticks = 0))

\* a push on a 5th iteration whose reconciliation failed
C17_Witness ==
    /\ AfterLoop /\ sendstate /\ ticks = 0
    /\ iter.changed /\ iter.err # nil
    /\ iter.pushed # "none"

\* C18: the gate is only reopened from outside: handleDemandChange changes
\* the readiness flag only by assigning what StopStartNTasks returned, also
\* when the call returned an error, so a tick that starts with the flag false
\* leaves it false and makes zero scheduler calls, whatever the demand does;
\* only the completion signal outside handleDemandChange sets it back to true.
C18_GateReopenedOutside ==
    /\ AfterTick =>
           /\ scaling_ready = IF tick.calls = <<>> THEN tick.pre.ready
                              ELSE tick.calls[Len(tick.calls)].readyAfter
           /\ ~tick.pre.ready => (tick.calls = <<>> /\ ~scaling_ready)
    /\ (prog = "handler" /\ scaling_ready /\ ~tick.pre.ready
            /\ tick # NoTick) => lastAction = "complete"

\* two changed ticks in a row shut out by the flag, a class left unreconciled
C18_Witness ==
    /\ AfterTick /\ tick.changed /\ ~tick.pre.ready /\ ~scaling_ready
    /\ tick.calls = <<>>
    /\ gatedOut.was
    /\ \E n \in TaskNames : ts[n].Requested # ts[n].Demand

====
